---- MODULE Spec2Model ----
(***************************************************************************)
(* A model of the content-mapping and caching layer of the blog:           *)
(*   src/src/lib/notion.ts          accessors, property mapper, wrapper    *)
(*   src/src/lib/notion-helpers.ts  derived-content caches                 *)
(*   src/unnamed/part_000           pageId -> slug map                     *)
(* JavaScript values are tagged records, so that the defaults, `||`, `??`  *)
(* and `?.` of the source keep their meaning.                              *)
(***************************************************************************)
EXTENDS Integers, Sequences, FiniteSets, TLC

VARIABLES
    posts,                \* remote: the rows of the posts database, in storage order
    dataSourceCache,      \* notion.ts:57       databaseId -> dataSourceId
    pageIdToSlugCache,    \* part_000:10        pageId -> slug
    blockStore,           \* remote: block_id -> the blocks listed under it
    readingTimeCache,     \* notion-helpers.ts:17
    tableOfContentsCache, \* notion-helpers.ts:12
    last,                 \* the last call: operation, arguments, outcome
    hne,                  \* a handleNotionError activation, step by step
    recordMapCache,       \* notion-helpers.ts:231   pageId -> recordMap
    callers,              \* the accessor calls in flight, each at a step of getDataSourceId
    walk                  \* a getPageBlocks activation, step by step

vars == <<posts, dataSourceCache, pageIdToSlugCache, blockStore, readingTimeCache,
          tableOfContentsCache, last, hne, recordMapCache, callers, walk>>

(***************************************************************************)
(* Bounds of the model.                                                    *)
(***************************************************************************)
\* rows in the posts database
NumPosts == 3
\* rows one query response returns (the remote's page limit, scaled down)
PageSize == 2

(***************************************************************************)
(* JavaScript values.                                                      *)
(***************************************************************************)
Undefined == [t |-> "undefined"]
Null == [t |-> "null"]
Str(s) == [t |-> "string", s |-> s]
Bool(b) == [t |-> "boolean", b |-> b]
Num(n) == [t |-> "number", n |-> n]
Arr(a) == [t |-> "array", a |-> a]
Obj(o) == [t |-> "object", o |-> o]

\* ToBoolean
Truthy(v) ==
    CASE v.t = "undefined" -> FALSE
      [] v.t = "null" -> FALSE
      [] v.t = "string" -> v.s # ""
      [] v.t = "boolean" -> v.b
      [] v.t = "number" -> v.n # 0
      [] OTHER -> TRUE

\* a || b
Or(a, b) == IF Truthy(a) THEN a ELSE b

\* a ?? b
Nullish(a, b) == IF a.t \in {"undefined", "null"} THEN b ELSE a

\* v?.f : undefined on null and undefined, and where the field is missing
Field(v, f) == IF v.t = "object" /\ f \in DOMAIN v.o THEN v.o[f] ELSE Undefined

RECURSIVE JoinPlainText(_)
JoinPlainText(a) ==
    IF a = <<>> THEN ""
    ELSE LET p == Field(Head(a), "plain_text")
         IN (IF p.t = "string" THEN p.s ELSE "") \o JoinPlainText(Tail(a))

\* notion.ts:213
getPlainTextFromRichText(richText) ==
    IF ~Truthy(richText) \/ richText.t # "array" THEN Str("")
    ELSE Str(JoinPlainText(richText.a))

RECURSIVE MapName(_)
MapName(a) == IF a = <<>> THEN <<>> ELSE <<Field(Head(a), "name")>> \o MapName(Tail(a))

\* the first file's url (notion.ts:428-432)
FileUrl(files) ==
    LET file == IF files.t = "array" /\ files.a # <<>> THEN files.a[1] ELSE Undefined
    IN IF ~Truthy(file) THEN Str("")
       ELSE IF Field(file, "type") = Str("external")
            THEN Field(Field(file, "external"), "url")
            ELSE Or(Field(Field(file, "file"), "url"), Str(""))

\* the default of a missing property (notion.ts:380-392)
DefaultValue(type) ==
    CASE type = "multi_select" -> Arr(<<>>)
      [] type = "checkbox" -> Bool(FALSE)
      [] type = "number" -> Null
      [] OTHER -> Str("")

\* notion.ts:379
getPropertyValue(property, type) ==
    IF ~Truthy(property) THEN DefaultValue(type)
    ELSE CASE type = "title" -> getPlainTextFromRichText(Field(property, "title"))
           [] type = "rich_text" -> getPlainTextFromRichText(Field(property, "rich_text"))
           [] type = "status" -> Or(Field(Field(property, "status"), "name"), Str(""))
           [] type = "select" -> Or(Field(Field(property, "select"), "name"), Str(""))
           [] type = "multi_select" ->
                LET ms == Field(property, "multi_select")
                IN IF ms.t = "array" THEN Arr(MapName(ms.a)) ELSE Arr(<<>>)
           [] type = "date" -> Or(Field(Field(property, "date"), "start"), Null)
           [] type = "checkbox" -> Or(Field(property, "checkbox"), Bool(FALSE))
           [] type = "number" -> Nullish(Field(property, "number"), Null)
           [] type = "url" -> Or(Field(property, "url"), Str(""))
           [] type = "email" -> Or(Field(property, "email"), Str(""))
           [] type = "phone_number" -> Or(Field(property, "phone_number"), Str(""))
           [] type = "files" -> FileUrl(Field(property, "files"))
           [] type = "people" -> Or(Field(property, "people"), Arr(<<>>))
           [] type = "created_time" -> Or(Field(property, "created_time"), Null)
           [] type = "last_edited_time" -> Or(Field(property, "last_edited_time"), Null)
           [] OTHER -> Str("")

(***************************************************************************)
(* Outcomes of calls, and the error wrapper.                               *)
(***************************************************************************)
Ok(v) == [ok |-> TRUE, value |-> v]
Throw(message) == [ok |-> FALSE, error |-> [message |-> message]]

\* handleNotionError rethrowing the caught error as it is
handleNotionError_rethrow(operation, outcome) ==
    IF outcome.ok THEN outcome ELSE Throw(outcome.error.message)

\* notion.ts:452  `outcome` is what `await fn()` did
handleNotionError(operation, outcome) ==
    IF outcome.ok THEN outcome
    ELSE Throw("Failed to " \o operation \o ": " \o outcome.error.message)

(***************************************************************************)
(* The remote service: the posts database.                                 *)
(***************************************************************************)
\* messages of the transport's errors
RemoteMessages == {"ECONNRESET"}

POSTS_DATABASE_ID == "posts-db"

PostIndex == 1..NumPosts
PageIdOf(i) == "p" \o ToString(i)
\* rows 1 and 2 share a slug, rows 3 and 4 the next one
SlugOf(i) == "s" \o ToString((i + 1) \div 2)
\* the publication dates in use, oldest first
Dates == <<"2024-01-01", "2024-01-02">>
Days == DOMAIN Dates
DateStr(d) == Dates[d]

RichText(s) == Arr(<<Obj([plain_text |-> Str(s)])>>)

\* a row of the posts database as the query returns it; status "" is a row
\* without a Status property
MkPage(i, status, day) ==
    [id |-> PageIdOf(i),
     properties |->
        (IF status = "" THEN <<>> ELSE [Status |-> Obj([status |-> Obj([name |-> Str(status)])])])
        @@ [Slug |-> Obj([rich_text |-> RichText(SlugOf(i))]),
            Title |-> Obj([title |-> RichText("t" \o ToString(i))])]
        @@ ("Published Date" :> Obj([date |-> Obj([start |-> Str(DateStr(day))])]))]

RowKinds == {<<"Published", d>> : d \in Days} \cup {<<"Draft", 1>>, <<"", 1>>}

Prop(page, name) ==
    IF name \in DOMAIN page.properties THEN page.properties[name] ELSE Undefined

\* what the remote compares in `status: {equals: ...}`
RemoteStatus(page) == Field(Field(Prop(page, "Status"), "status"), "name")
\* what the remote compares in `rich_text: {equals: ...}`
RemoteSlug(page) == getPlainTextFromRichText(Field(Prop(page, "Slug"), "rich_text"))
\* what the remote sorts on
RemoteDay(page) ==
    LET s == Field(Field(Prop(page, "Published Date"), "date"), "start")
    IN IF \E d \in Days : s = Str(DateStr(d)) THEN CHOOSE d \in Days : s = Str(DateStr(d)) ELSE 0

RECURSIVE InsertDesc(_, _)
InsertDesc(p, s) ==
    IF s = <<>> THEN <<p>>
    ELSE IF RemoteDay(Head(s)) >= RemoteDay(p) THEN <<Head(s)>> \o InsertDesc(p, Tail(s))
         ELSE <<p>> \o s

RECURSIVE SortDesc(_)
\* `sorts: [{property: "Published Date", direction: "descending"}]`, stable
SortDesc(s) ==
    IF s = <<>> THEN <<>>
    ELSE LET n == Len(s) IN InsertDesc(s[n], SortDesc(SubSeq(s, 1, n - 1)))

\* one response: the first PageSize rows of the result (has_more, next_cursor beyond)
FirstPage(s) == SubSeq(s, 1, IF Len(s) < PageSize THEN Len(s) ELSE PageSize)

\* POST data_sources/<id>/query of getAllPosts (notion.ts:97-114)
QueryPublished(db) ==
    LET IsPublished(p) == RemoteStatus(p) = Str("Published")
    IN FirstPage(SortDesc(SelectSeq(db, IsPublished)))

\* POST data_sources/<id>/query of getPostBySlug (notion.ts:142-153)
QueryBySlug(db, slug) ==
    LET HasSlug(p) == RemoteSlug(p) = Str(slug)
    IN FirstPage(SelectSeq(db, HasSlug))

\* what notion.databases.retrieve may answer
RetrieveAnswers ==
    {[kind |-> "throws", message |-> m] : m \in RemoteMessages}
    \cup {[kind |-> "partial"]}
    \cup {[kind |-> "full", data_sources |-> ds] : ds \in {<<>>, <<"ds-posts">>}}

\* the retrieve is only made on a cache miss (notion.ts:66-71)
DbAnswers(databaseId) ==
    IF databaseId \in DOMAIN dataSourceCache THEN {[kind |-> "none"]} ELSE RetrieveAnswers

\* what notion.request may do: fail with a transport error, or answer
RequestAnswers == {[fails |-> FALSE]} \cup {[fails |-> TRUE, message |-> m] : m \in RemoteMessages}

(***************************************************************************)
(* Accessors (notion.ts).                                                  *)
(***************************************************************************)
\* notion.ts:64   the outcome, and the cache after the call
getDataSourceId(databaseId, answer) ==
    IF databaseId \in DOMAIN dataSourceCache
    THEN [out |-> Ok(dataSourceCache[databaseId]), cache |-> dataSourceCache]
    ELSE IF answer.kind = "throws"
    THEN [out |-> Throw(answer.message), cache |-> dataSourceCache]
    ELSE IF answer.kind = "partial"
    THEN [out |-> Throw("No read permissions on database: " \o databaseId),
          cache |-> dataSourceCache]
    ELSE IF Len(answer.data_sources) > 0
    THEN [out |-> Ok(answer.data_sources[1]),
          cache |-> (databaseId :> answer.data_sources[1]) @@ dataSourceCache]
    ELSE [out |-> Throw("No data sources found in database " \o databaseId),
          cache |-> dataSourceCache]

\* the object literal of notion.ts:116-130 and 158-172
MapPost(page) ==
    [id |-> page.id,
     title |-> getPropertyValue(Prop(page, "Title"), "title"),
     slug |-> getPropertyValue(Prop(page, "Slug"), "rich_text"),
     status |-> getPropertyValue(Prop(page, "Status"), "status"),
     publishedDate |-> getPropertyValue(Prop(page, "Published Date"), "date"),
     updatedDate |-> getPropertyValue(Prop(page, "Updated Date"), "date"),
     category |-> getPropertyValue(Prop(page, "Category"), "select"),
     tags |-> getPropertyValue(Prop(page, "Tags"), "multi_select"),
     description |-> getPropertyValue(Prop(page, "Description"), "rich_text"),
     coverImage |-> getPropertyValue(Prop(page, "Cover Image"), "url"),
     featured |-> getPropertyValue(Prop(page, "Featured"), "checkbox"),
     seoTitle |-> getPropertyValue(Prop(page, "SEO Title"), "rich_text"),
     seoKeywords |-> getPropertyValue(Prop(page, "SEO Keywords"), "multi_select")]

MapPosts(results) == [i \in 1..Len(results) |-> MapPost(results[i])]

\* notion.ts:92   the outcome, and the data-source cache after the call
getAllPosts(answer, request) ==
    LET ds == getDataSourceId(POSTS_DATABASE_ID, answer)
        body == IF ~ds.out.ok THEN ds.out
                ELSE IF request.fails THEN Throw(request.message)
                ELSE Ok(MapPosts(QueryPublished(posts)))
    IN [out |-> handleNotionError("get all posts", body), cache |-> ds.cache]

\* getPostBySlug rejecting only rows whose status is "Draft"
getPostBySlug_draftOnly(slug, requirePublished, answer, request) ==
    LET ds == getDataSourceId(POSTS_DATABASE_ID, answer)
        results == QueryBySlug(posts, slug)
        body == IF ~ds.out.ok THEN ds.out
                ELSE IF request.fails THEN Throw(request.message)
                ELSE IF Len(results) = 0 THEN Ok(Null)
                ELSE LET post == MapPost(results[1])
                     IN IF requirePublished /\ post.status = Str("Draft")
                        THEN Ok(Null)
                        ELSE Ok(post)
    IN [out |-> handleNotionError("get post by slug: " \o slug, body), cache |-> ds.cache]

\* notion.ts:138
getPostBySlug(slug, requirePublished, answer, request) ==
    LET ds == getDataSourceId(POSTS_DATABASE_ID, answer)
        results == QueryBySlug(posts, slug)
        body == IF ~ds.out.ok THEN ds.out
                ELSE IF request.fails THEN Throw(request.message)
                ELSE IF Len(results) = 0 THEN Ok(Null)
                ELSE LET post == MapPost(results[1])
                     IN IF requirePublished /\ post.status # Str("Published")
                        THEN Ok(Null)
                        ELSE Ok(post)
    IN [out |-> handleNotionError("get post by slug: " \o slug, body), cache |-> ds.cache]

(***************************************************************************)
(* The pageId -> slug map (part_000).                                      *)
(***************************************************************************)
\* Map.prototype.set
MapSet(m, k, v) == [x \in DOMAIN m \cup {k} |-> IF x = k THEN v ELSE m[x]]

RECURSIVE SetAllSlugs(_, _)
\* the loop of part_000:18-20
SetAllSlugs(m, ps) ==
    IF ps = <<>> THEN m
    ELSE SetAllSlugs(MapSet(m, Head(ps).id, Head(ps).slug), Tail(ps))

\* part_000:15   the outcome, the fetched posts, the map and the data-source
\* cache after the call
buildPageIdToSlugMap(answer, request) ==
    LET r == getAllPosts(answer, request)
    IN IF r.out.ok
       THEN [out |-> Ok(Undefined), fetched |-> r.out.value,
             map |-> SetAllSlugs(pageIdToSlugCache, r.out.value), cache |-> r.cache]
       ELSE [out |-> r.out, fetched |-> <<>>, map |-> pageIdToSlugCache, cache |-> r.cache]

\* part_000:28   Map.prototype.get
getSlugByPageId(pageId) ==
    IF pageId \in DOMAIN pageIdToSlugCache THEN pageIdToSlugCache[pageId] ELSE Undefined

\* part_000:35   Map.prototype.clear
clearPageIdMap == <<>>

(***************************************************************************)
(* Specification Spec: the posts database, its accessors and the slug map. *)
(***************************************************************************)
QuerySlugs == {SlugOf(i) : i \in PostIndex} \cup {"missing"}
QueryIds == {PageIdOf(i) : i \in PostIndex} \cup {"unknown"}

\* no record map fetched, no call in flight, no block walk under way
ExtraIdle ==
    /\ recordMapCache = <<>>
    /\ callers = <<>>
    /\ walk = [pc |-> "idle"]

extraVars == <<recordMapCache, callers, walk>>

Idle ==
    /\ blockStore = <<>>
    /\ readingTimeCache = <<>>
    /\ tableOfContentsCache = <<>>
    /\ hne = [pc |-> "idle"]
    /\ ExtraIdle

Init ==
    /\ posts = [i \in PostIndex |-> MkPage(i, "Draft", 1)]
    /\ dataSourceCache = <<>>
    /\ pageIdToSlugCache = <<>>
    /\ last = [op |-> "init"]
    /\ Idle

derivedVars == <<blockStore, readingTimeCache, tableOfContentsCache, hne, extraVars>>

\* the author edits a row in the workspace
EditPage ==
    \E i \in PostIndex, k \in RowKinds :
        /\ posts' = [posts EXCEPT ![i] = MkPage(i, k[1], k[2])]
        /\ posts' # posts
        /\ last' = [op |-> "edit"]
        /\ UNCHANGED <<dataSourceCache, pageIdToSlugCache, derivedVars>>

GetAllPosts ==
    \E answer \in DbAnswers(POSTS_DATABASE_ID), request \in RequestAnswers :
        LET r == getAllPosts(answer, request)
        IN /\ dataSourceCache' = r.cache
           /\ last' = [op |-> "getAllPosts", out |-> r.out]
           /\ UNCHANGED <<posts, pageIdToSlugCache, derivedVars>>

GetPostBySlug ==
    \E slug \in QuerySlugs, requirePublished \in BOOLEAN,
       answer \in DbAnswers(POSTS_DATABASE_ID), request \in RequestAnswers :
        LET r == getPostBySlug(slug, requirePublished, answer, request)
        IN /\ dataSourceCache' = r.cache
           /\ last' = [op |-> "getPostBySlug", slug |-> slug,
                       requirePublished |-> requirePublished, out |-> r.out]
           /\ UNCHANGED <<posts, pageIdToSlugCache, derivedVars>>

BuildPageIdToSlugMap ==
    \E answer \in DbAnswers(POSTS_DATABASE_ID), request \in RequestAnswers :
        LET r == buildPageIdToSlugMap(answer, request)
        IN /\ dataSourceCache' = r.cache
           /\ pageIdToSlugCache' = r.map
           /\ last' = [op |-> "buildPageIdToSlugMap", out |-> r.out, fetched |-> r.fetched]
           /\ UNCHANGED <<posts, derivedVars>>

GetSlugByPageId ==
    \E pageId \in QueryIds :
        /\ last' = [op |-> "getSlugByPageId", pageId |-> pageId,
                    out |-> Ok(getSlugByPageId(pageId))]
        /\ UNCHANGED <<posts, dataSourceCache, pageIdToSlugCache, derivedVars>>

ClearPageIdMap ==
    /\ pageIdToSlugCache' = clearPageIdMap
    /\ last' = [op |-> "clearPageIdMap"]
    /\ UNCHANGED <<posts, dataSourceCache, derivedVars>>

\* the accessors over a changing database
Next ==
    \/ EditPage
    \/ GetAllPosts
    \/ GetPostBySlug

Spec == Init /\ [][Next]_vars

\* the slug map over a changing database
NextIndex ==
    \/ EditPage
    \/ BuildPageIdToSlugMap
    \/ GetSlugByPageId
    \/ ClearPageIdMap

SpecIndex == Init /\ [][NextIndex]_vars

(***************************************************************************)
(* Claims about the accessors and the slug map.                            *)
(***************************************************************************)
PublishedIds == {posts[i].id : i \in {j \in PostIndex : RemoteStatus(posts[j]) = Str("Published")}}
IdsOf(ps) == {ps[k].id : k \in DOMAIN ps}
DayOfDate(v) == IF \E d \in Days : v = Str(DateStr(d)) THEN CHOOSE d \in Days : v = Str(DateStr(d)) ELSE 0

\* C1: a successful getAllPosts() returns every Published row of the database,
\* whatever their number, no row of another status, by publication date descending.
C1_AllPublishedReturned ==
    (last.op = "getAllPosts" /\ last.out.ok) =>
        LET v == last.out.value
        IN /\ IdsOf(v) = PublishedIds
           /\ Len(v) = Cardinality(PublishedIds)
           /\ \A k \in DOMAIN v : v[k].status = Str("Published")
           /\ \A j, k \in DOMAIN v :
                j < k => DayOfDate(v[j].publishedDate) >= DayOfDate(v[k].publishedDate)

\* the rows whose slug is `slug`, in storage order
MatchingRows(slug) == {i \in PostIndex : RemoteSlug(posts[i]) = Str(slug)}
FirstMatch(slug) == CHOOSE i \in MatchingRows(slug) : \A j \in MatchingRows(slug) : i <= j

\* C2: getPostBySlug(slug, true) never returns a row whose status is not
\* "Published": when the first row with that slug has another status, or no
\* Status property, it returns null and throws nothing of its own; with
\* requirePublished = false that same row is returned.
C2_NoDraftLeak ==
    last.op = "getPostBySlug" =>
        LET rows == MatchingRows(last.slug)
            remoteFailures ==
                {"Failed to get post by slug: " \o last.slug \o ": " \o m :
                    m \in RemoteMessages
                          \cup {"No read permissions on database: " \o POSTS_DATABASE_ID,
                                "No data sources found in database " \o POSTS_DATABASE_ID}}
        IN /\ ~last.out.ok => last.out.error.message \in remoteFailures
           /\ last.out.ok =>
                /\ (last.requirePublished /\ last.out.value # Null) =>
                        last.out.value.status = Str("Published")
                /\ rows = {} => last.out.value = Null
                /\ rows # {} =>
                      LET first == posts[FirstMatch(last.slug)]
                          published == RemoteStatus(first) = Str("Published")
                      IN /\ (last.requirePublished /\ ~published) => last.out.value = Null
                         /\ (~last.requirePublished \/ published) =>
                                /\ last.out.value # Null
                                /\ last.out.value.id = first.id
                                /\ last.out.value.status = Or(RemoteStatus(first), Str(""))

\* C2's case: the first row with the slug has no Status property, a later row
\* with the same slug is Published, and the call answered null.
C2_Witness ==
    /\ last.op = "getPostBySlug"
    /\ last.requirePublished
    /\ last.out.ok
    /\ last.out.value = Null
    /\ Cardinality(MatchingRows(last.slug)) >= 2
    /\ RemoteStatus(posts[FirstMatch(last.slug)]) = Undefined
    /\ \E i \in MatchingRows(last.slug) : RemoteStatus(posts[i]) = Str("Published")

\* C3: once a build completes, the keys of the slug map are exactly the ids
\* that build fetched.
C3_BuildReplaces ==
    (last.op = "buildPageIdToSlugMap" /\ last.out.ok) =>
        DOMAIN pageIdToSlugCache = IdsOf(last.fetched)

\* C4: after a build, every fetched id resolves to its post's slug and every
\* id absent from the source set resolves to undefined; after a clear, no id
\* resolves.
C4_ResolveAfterBuild ==
    /\ (last.op = "buildPageIdToSlugMap" /\ last.out.ok) =>
          /\ \A k \in DOMAIN last.fetched :
                getSlugByPageId(last.fetched[k].id) = last.fetched[k].slug
          /\ \A id \in QueryIds \ PublishedIds : getSlugByPageId(id) = Undefined
    /\ last.op = "clearPageIdMap" => \A id \in QueryIds : getSlugByPageId(id) = Undefined

(***************************************************************************)
(* Specification SpecMapper: the property mapper on its own.               *)
(***************************************************************************)
RecognizedTypes ==
    {"title", "rich_text", "status", "select", "multi_select", "date", "checkbox",
     "number", "url", "email", "phone_number", "files", "people", "created_time",
     "last_edited_time"}

TypeTags == RecognizedTypes \cup {"formula"}

\* raw property values: absent, null, and one or two shapes per type
PropertyInputs ==
    {Undefined, Null,
     Obj([title |-> RichText("Hello")]),
     Obj([rich_text |-> Arr(<<Obj([plain_text |-> Str("a")]), Obj([plain_text |-> Str("b")])>>)]),
     Obj([status |-> Obj([name |-> Str("Published")])]),
     Obj([status |-> Null]),
     Obj([select |-> Obj([name |-> Str("tech")])]),
     Obj([multi_select |-> Arr(<<Obj([name |-> Str("go")]), Obj([name |-> Str("rust")])>>)]),
     Obj([date |-> Obj([start |-> Str("2024-01-01")])]),
     Obj([date |-> Null]),
     Obj([checkbox |-> Bool(TRUE)]),
     Obj([number |-> Num(0)]),
     Obj([url |-> Str("https://example.org")]),
     Obj([files |-> Arr(<<Obj([type |-> Str("external"),
                              external |-> Obj([url |-> Str("https://example.org/f")])])>>)]),
     Obj([files |-> Arr(<<>>)]),
     Obj([created_time |-> Str("2024-01-01T00:00:00Z")])}

otherVars == <<posts, dataSourceCache, pageIdToSlugCache, derivedVars>>

InitMapper ==
    /\ posts = <<>>
    /\ dataSourceCache = <<>>
    /\ pageIdToSlugCache = <<>>
    /\ last = [op |-> "init"]
    /\ Idle

GetPropertyValue ==
    \E property \in PropertyInputs, type \in TypeTags :
        /\ last' = [op |-> "getPropertyValue", property |-> property, type |-> type,
                    out |-> getPropertyValue(property, type)]
        /\ UNCHANGED otherVars

NextMapper == GetPropertyValue

SpecMapper == InitMapper /\ [][NextMapper]_vars

\* the default the specification declares for a type; the types it names no
\* default for keep whatever the mapper gives
DeclaredDefault(type) ==
    CASE type \in {"title", "rich_text", "status", "select", "url", "email", "phone_number"} ->
            Str("")
      [] type = "multi_select" -> Arr(<<>>)
      [] type = "checkbox" -> Bool(FALSE)
      [] type \in {"number", "date"} -> Null
      [] OTHER -> getPropertyValue(Undefined, type)

\* C6: for a null or absent raw property and every recognized type tag the
\* mapper returns the type's declared default: "" for the text-like types, []
\* for multi_select, false for checkbox, null for number and for date.
C6_DeclaredDefaults ==
    (/\ last.op = "getPropertyValue"
     /\ last.property \in {Undefined, Null}
     /\ last.type \in RecognizedTypes) => last.out = DeclaredDefault(last.type)

(***************************************************************************)
(* Specification SpecError: one activation of handleNotionError, step by   *)
(* step: the call, the await of fn, then the return or the catch.          *)
(***************************************************************************)
Operations ==
    {"get all posts", "get all friends", "get all categories", "get all tags",
     "get post by slug: s1"}

\* what fn may do: resolve to a value, or reject with an error
FnBehaviours ==
    {Ok(v) : v \in {Null, Arr(<<>>), Arr(<<Str("x")>>)}}
    \cup {[ok |-> FALSE, error |-> [message |-> m, code |-> c]] :
            m \in {"ECONNRESET", "unauthorized", ""}, c \in {Undefined, Str("object_not_found")}}

InitError ==
    /\ posts = <<>>
    /\ dataSourceCache = <<>>
    /\ pageIdToSlugCache = <<>>
    /\ last = [op |-> "init"]
    /\ blockStore = <<>>
    /\ readingTimeCache = <<>>
    /\ tableOfContentsCache = <<>>
    /\ hne = [pc |-> "idle"]
    /\ ExtraIdle

hneFrame == <<posts, dataSourceCache, pageIdToSlugCache, blockStore, readingTimeCache,
              tableOfContentsCache, last, extraVars>>

\* notion.ts:452   handleNotionError(operation, fn) is entered
HneCall ==
    /\ hne.pc \in {"idle", "done"}
    /\ \E operation \in Operations, fn \in FnBehaviours :
          hne' = [pc |-> "try", operation |-> operation, fn |-> fn, calls |-> 0, logged |-> <<>>]
    /\ UNCHANGED hneFrame

\* notion.ts:454   fn() is invoked and awaited
HneAwait ==
    /\ hne.pc = "try"
    /\ hne' = [hne EXCEPT !.pc = "settled", !.calls = @ + 1]
    /\ UNCHANGED hneFrame

\* notion.ts:454   return await fn()
HneReturn ==
    /\ hne.pc = "settled"
    /\ hne.fn.ok
    /\ hne' = [pc |-> "done", operation |-> hne.operation, fn |-> hne.fn, calls |-> hne.calls,
               logged |-> hne.logged, out |-> handleNotionError(hne.operation, hne.fn)]
    /\ UNCHANGED hneFrame

\* notion.ts:455-462   catch: console.error, then throw new Error
HneCatch ==
    /\ hne.pc = "settled"
    /\ ~hne.fn.ok
    /\ hne' = [pc |-> "done", operation |-> hne.operation, fn |-> hne.fn, calls |-> hne.calls,
               logged |-> Append(hne.logged,
                                 [operation |-> hne.operation,
                                  message |-> hne.fn.error.message,
                                  code |-> hne.fn.error.code]),
               out |-> handleNotionError(hne.operation, hne.fn)]
    /\ UNCHANGED hneFrame

NextError ==
    \/ HneCall
    \/ HneAwait
    \/ HneReturn
    \/ HneCatch

SpecError == InitError /\ [][NextError]_vars

\* C7: handleNotionError returns fn's result unmodified when fn succeeds; when
\* fn fails with message m it throws one error whose message is
\* "Failed to <operation>: <m>", having invoked fn exactly once, and returns
\* no result.
C7_WrapOnce ==
    /\ hne.pc \in {"settled", "done"} => hne.calls = 1
    /\ hne.pc = "done" =>
          /\ hne.fn.ok => hne.out = hne.fn
          /\ ~hne.fn.ok =>
                /\ ~hne.out.ok
                /\ DOMAIN hne.out = {"ok", "error"}
                /\ hne.out.error.message =
                       "Failed to " \o hne.operation \o ": " \o hne.fn.error.message
                /\ Len(hne.logged) = 1

\* C7's case: fn rejected with a non-empty message and the wrapper has thrown.
C7_Witness ==
    /\ hne.pc = "done"
    /\ ~hne.fn.ok
    /\ hne.fn.error.message = "unauthorized"
    /\ ~hne.out.ok

(***************************************************************************)
(* Block content (notion.ts) and the derived-content caches                *)
(* (notion-helpers.ts).  A block is [id, type, has_children, content],     *)
(* content being block[block.type]; strings are read character by          *)
(* character where the source splits or trims them.                        *)
(***************************************************************************)
\* notion.ts:284
getMediaSourceText(block) ==
    IF ~Truthy(block.content) THEN Str("")
    ELSE LET c == block.content
             source == IF Truthy(Field(c, "external")) THEN Field(Field(c, "external"), "url")
                       ELSE IF Truthy(Field(c, "file")) THEN Field(Field(c, "file"), "url")
                       ELSE IF Truthy(Field(c, "url")) THEN Field(c, "url")
                       ELSE Str("")
             caption == Field(c, "caption")
         IN IF caption.t = "array" /\ Len(caption.a) > 0
            THEN LET cap == getPlainTextFromRichText(caption)
                 IN IF Truthy(cap) THEN Str(cap.s \o ": " \o source.s) ELSE source
            ELSE source

\* notion.ts:223
getTextFromBlock(block) ==
    IF Truthy(Field(block.content, "rich_text"))
    THEN getPlainTextFromRichText(Field(block.content, "rich_text"))
    ELSE CASE block.type = "bookmark" -> Or(Field(block.content, "url"), Str(""))
           [] block.type = "child_database" -> Or(Field(block.content, "title"), Str(""))
           [] block.type = "child_page" -> Or(Field(block.content, "title"), Str(""))
           [] block.type \in {"embed", "video", "file", "image", "pdf"} ->
                getMediaSourceText(block)
           [] block.type = "equation" -> Or(Field(block.content, "expression"), Str(""))
           [] block.type = "link_preview" -> Or(Field(block.content, "url"), Str(""))
           [] block.type = "table" ->
                LET w == Field(block.content, "table_width")
                IN Str("Table (" \o (IF w.t = "number" THEN ToString(w.n) ELSE "undefined")
                       \o " columns)")
           [] block.type = "table_of_contents" -> Str("Table of Contents")
           [] block.type \in {"divider", "breadcrumb", "column_list"} -> Str("")
           [] block.type = "unsupported" -> Str("[Unsupported block type]")
           [] OTHER -> Str("")

\* notion.ts:192-197   every page of blocks.children.list for one block_id
ListChildren(id) == IF id \in DOMAIN blockStore THEN blockStore[id] ELSE <<>>

RECURSIVE FetchBlocks(_)
\* notion.ts:188-207   the blocks under `id`, children attached
FetchBlocks(id) ==
    LET blocks == ListChildren(id)
    IN [i \in 1..Len(blocks) |->
          IF blocks[i].has_children /\ blocks[i].type # "child_page"
          THEN [children |-> FetchBlocks(blocks[i].id)] @@ blocks[i]
          ELSE blocks[i]]

\* notion.ts:188   `listing` is what the remote listing did
getPageBlocks(pageId, listing) ==
    IF listing.fails THEN Throw(listing.message) ELSE Ok(FetchBlocks(pageId))

Whitespace == {" ", "\t", "\n"}

CharAt(t, i) == SubSeq(t, i, i)

\* !t.trim()
IsBlank(t) == \A i \in 1..Len(t) : CharAt(t, i) \in Whitespace

RECURSIVE JoinTexts(_)
\* Array.prototype.join(" ")
JoinTexts(ts) ==
    IF ts = <<>> THEN ""
    ELSE IF Len(ts) = 1 THEN ts[1]
    ELSE ts[1] \o " " \o JoinTexts(Tail(ts))

\* notion-helpers.ts:111   maxLength 0 stands for the omitted argument
blocksToPlainText(blocks, maxLength) ==
    LET NotBlank(t) == ~IsBlank(t)
        text == JoinTexts(SelectSeq([i \in 1..Len(blocks) |-> getTextFromBlock(blocks[i]).s],
                                    NotBlank))
    IN IF maxLength # 0 /\ Len(text) > maxLength
       THEN SubSeq(text, 1, maxLength) \o "..."
       ELSE text

\* text.split(/\s+/).length: one more than the number of maximal runs of
\* whitespace (the separator never matches the empty string, so "" gives [""])
SplitCount(text) ==
    1 + Cardinality({i \in 1..Len(text) :
                        /\ CharAt(text, i) \in Whitespace
                        /\ (i = 1 \/ CharAt(text, i - 1) \notin Whitespace)})

\* notion-helpers.ts:136   the words read per minute
WordsPerMinute == 200

\* Math.ceil(words / 200)
CeilDiv(n, d) == (n + d - 1) \div d

\* notion-helpers.ts:133-136
ReadingTimeOf(blocks) == CeilDiv(SplitCount(blocksToPlainText(blocks, 0)), WordsPerMinute)

\* getReadingTime that never looks in the cache
getReadingTime_noCache(postId, useCache, listing) ==
    LET blocks == getPageBlocks(postId, listing)
    IN IF ~blocks.ok
       THEN [out |-> blocks, cache |-> readingTimeCache, fetched |-> TRUE]
       ELSE LET time == ReadingTimeOf(blocks.value)
            IN [out |-> Ok(time), cache |-> MapSet(readingTimeCache, postId, time),
                fetched |-> TRUE]

\* notion-helpers.ts:127   the outcome, the cache after the call, and whether
\* getPageBlocks was called
getReadingTime(postId, useCache, listing) ==
    IF useCache /\ postId \in DOMAIN readingTimeCache
    THEN [out |-> Ok(readingTimeCache[postId]), cache |-> readingTimeCache, fetched |-> FALSE]
    ELSE LET blocks == getPageBlocks(postId, listing)
         IN IF ~blocks.ok
            THEN [out |-> blocks, cache |-> readingTimeCache, fetched |-> TRUE]
            ELSE LET time == ReadingTimeOf(blocks.value)
                 IN [out |-> Ok(time), cache |-> MapSet(readingTimeCache, postId, time),
                     fetched |-> TRUE]

\* the digit after the underscore: Number.parseInt(block.type.split("_")[1])
HeadingLevel(type) ==
    LET d == SubSeq(type, Len(type), Len(type))
    IN CHOOSE n \in 0..9 : ToString(n) = d

IsHeading(block) == block.type \in {"heading_1", "heading_2", "heading_3"}

TocEntry(block) ==
    [id |-> block.id, level |-> HeadingLevel(block.type), text |-> getTextFromBlock(block).s]

\* notion-helpers.ts:152-161
TocOf(blocks) ==
    LET hs == SelectSeq(blocks, IsHeading)
    IN [i \in 1..Len(hs) |-> TocEntry(hs[i])]

\* notion-helpers.ts:145
getTableOfContents(postId, useCache, listing) ==
    IF useCache /\ postId \in DOMAIN tableOfContentsCache
    THEN [out |-> Ok(tableOfContentsCache[postId]), cache |-> tableOfContentsCache,
          fetched |-> FALSE]
    ELSE LET blocks == getPageBlocks(postId, listing)
         IN IF ~blocks.ok
            THEN [out |-> blocks, cache |-> tableOfContentsCache, fetched |-> TRUE]
            ELSE LET toc == TocOf(blocks.value)
                 IN [out |-> Ok(toc), cache |-> MapSet(tableOfContentsCache, postId, toc),
                     fetched |-> TRUE]

(***************************************************************************)
(* The remote service: page content.                                       *)
(***************************************************************************)
TextBlock(id, type, text, has_children) ==
    [id |-> id, type |-> type, has_children |-> has_children,
     content |-> Obj([rich_text |-> RichText(text)])]

PlainBlock(id, type, content, has_children) ==
    [id |-> id, type |-> type, has_children |-> has_children, content |-> content]

RECURSIVE Words(_)
\* n words separated by single spaces
Words(n) ==
    IF n = 0 THEN ""
    ELSE IF n = 1 THEN "w"
    ELSE Words(n \div 2) \o " " \o Words(n - (n \div 2))

ContentPages == {"p1", "p2"}

DocNames ==
    {"empty", "outline", "nested", "columns", "short", "w200", "w201", "padded",
     "subpage", "misc"}

\* the documents a page may hold: block_id -> the blocks listed under it
Doc(p, name) ==
    CASE name = "empty" -> (p :> <<>>)
      [] name = "outline" ->
            (p :> <<TextBlock(p \o "-1", "heading_1", "Intro", FALSE),
                    TextBlock(p \o "-2", "paragraph", "some words", FALSE),
                    TextBlock(p \o "-3", "heading_2", "First part", FALSE),
                    TextBlock(p \o "-4", "paragraph", "more words here", FALSE),
                    TextBlock(p \o "-5", "heading_2", "Second part", FALSE)>>)
      [] name = "nested" ->
            (p :> <<TextBlock(p \o "-1", "heading_1", "Top", FALSE),
                    TextBlock(p \o "-2", "toggle", "Details", TRUE)>>)
            @@ (p \o "-2" :> <<TextBlock(p \o "-2-1", "heading_3", "Inside", FALSE),
                               TextBlock(p \o "-2-2", "paragraph", Words(199), FALSE)>>)
      [] name = "columns" ->
            (p :> <<PlainBlock(p \o "-1", "column_list", Obj(<<>>), TRUE)>>)
            @@ (p \o "-1" :> <<PlainBlock(p \o "-1-1", "column", Obj(<<>>), TRUE)>>)
            @@ (p \o "-1-1" :> <<TextBlock(p \o "-1-1-1", "heading_2", "Left", FALSE)>>)
      [] name = "short" -> (p :> <<TextBlock(p \o "-1", "paragraph", Words(1), FALSE)>>)
      [] name = "w200" -> (p :> <<TextBlock(p \o "-1", "paragraph", Words(200), FALSE)>>)
      [] name = "w201" ->
            (p :> <<TextBlock(p \o "-1", "paragraph", Words(200), FALSE),
                    TextBlock(p \o "-2", "heading_3", "w", FALSE)>>)
      [] name = "padded" ->
            (p :> <<TextBlock(p \o "-1", "paragraph", " " \o Words(200) \o "\n", FALSE),
                    TextBlock(p \o "-2", "paragraph", "  ", FALSE)>>)
      [] name = "subpage" ->
            (p :> <<PlainBlock(p \o "-1", "child_page", Obj([title |-> Str("Appendix")]), TRUE),
                    PlainBlock(p \o "-2", "divider", Obj(<<>>), FALSE)>>)
            @@ (p \o "-1" :> <<TextBlock(p \o "-1-1", "heading_1", "Elsewhere", FALSE)>>)
      [] name = "misc" ->
            (p :> <<PlainBlock(p \o "-1", "table_of_contents", Obj(<<>>), FALSE),
                    PlainBlock(p \o "-2", "bookmark", Obj([url |-> Str("https://example.org")]),
                               FALSE),
                    PlainBlock(p \o "-3", "table", Obj([table_width |-> Num(2)]), FALSE),
                    PlainBlock(p \o "-4", "image",
                               Obj([external |-> Obj([url |-> Str("https://example.org/i.png")]),
                                    caption |-> RichText("a figure")]), FALSE)>>)

\* p1 holds any document, p2 one of two
DocsOf(p) == IF p = "p1" THEN DocNames ELSE {"empty", "outline"}

\* what blocks.children.list may do
ListingAnswers == {[fails |-> FALSE]} \cup {[fails |-> TRUE, message |-> m] : m \in RemoteMessages}

(***************************************************************************)
(* Specification SpecDerived: page content and the derived-content caches. *)
(***************************************************************************)
InitDerived ==
    /\ posts = <<>>
    /\ dataSourceCache = <<>>
    /\ pageIdToSlugCache = <<>>
    /\ blockStore = Doc("p1", "empty") @@ Doc("p2", "empty")
    /\ readingTimeCache = <<>>
    /\ tableOfContentsCache = <<>>
    /\ last = [op |-> "init"]
    /\ hne = [pc |-> "idle"]
    /\ ExtraIdle

postsVars == <<posts, dataSourceCache, pageIdToSlugCache, hne, extraVars>>

\* the author rewrites a page in the workspace
EditContent ==
    \E p \in ContentPages :
        \E name \in DocsOf(p) :
            /\ blockStore' = Doc(p, name)
                             @@ [id \in {x \in DOMAIN blockStore : SubSeq(x, 1, Len(p)) # p} |->
                                    blockStore[id]]
            /\ blockStore' # blockStore
            /\ last' = [op |-> "edit"]
            /\ UNCHANGED <<readingTimeCache, tableOfContentsCache, postsVars>>

GetPageBlocks ==
    \E pageId \in ContentPages, listing \in ListingAnswers :
        /\ last' = [op |-> "getPageBlocks", postId |-> pageId,
                    out |-> getPageBlocks(pageId, listing)]
        /\ UNCHANGED <<blockStore, readingTimeCache, tableOfContentsCache, postsVars>>

GetReadingTime ==
    \E postId \in ContentPages, useCache \in BOOLEAN, listing \in ListingAnswers :
        LET r == getReadingTime(postId, useCache, listing)
        IN /\ readingTimeCache' = r.cache
           /\ last' = [op |-> "getReadingTime", postId |-> postId, useCache |-> useCache,
                       out |-> r.out, fetched |-> r.fetched]
           /\ UNCHANGED <<blockStore, tableOfContentsCache, postsVars>>

GetTableOfContents ==
    \E postId \in ContentPages, useCache \in BOOLEAN, listing \in ListingAnswers :
        LET r == getTableOfContents(postId, useCache, listing)
        IN /\ tableOfContentsCache' = r.cache
           /\ last' = [op |-> "getTableOfContents", postId |-> postId, useCache |-> useCache,
                       out |-> r.out, fetched |-> r.fetched]
           /\ UNCHANGED <<blockStore, readingTimeCache, postsVars>>

\* a clearAllCaches that empties the slug map as well
ClearAllCaches_alsoSlugs ==
    /\ tableOfContentsCache' = <<>>
    /\ readingTimeCache' = <<>>
    /\ pageIdToSlugCache' = <<>>
    /\ last' = [op |-> "clearAllCaches"]
    /\ UNCHANGED <<blockStore, posts, dataSourceCache, hne, extraVars>>

\* notion-helpers.ts:22
ClearAllCaches ==
    /\ tableOfContentsCache' = <<>>
    /\ readingTimeCache' = <<>>
    /\ last' = [op |-> "clearAllCaches"]
    /\ UNCHANGED <<blockStore, postsVars>>

NextDerived ==
    \/ EditContent
    \/ GetPageBlocks
    \/ GetReadingTime
    \/ GetTableOfContents
    \/ ClearAllCaches

SpecDerived == InitDerived /\ [][NextDerived]_vars

(***************************************************************************)
(* Claims about page content and the derived-content caches.               *)
(***************************************************************************)
\* C5: with useCache = true a call for an identifier that has an entry returns
\* that entry and fetches nothing, so two consecutive calls return the same
\* value on one fetch; with useCache = false every call fetches and
\* recomputes from the content as it is now, entry or not.
C5_CacheIdempotent ==
    [][last'.op = "getReadingTime" =>
        LET id == last'.postId
        IN /\ (last'.useCache /\ id \in DOMAIN readingTimeCache) =>
                /\ last'.out = Ok(readingTimeCache[id])
                /\ ~last'.fetched
                /\ readingTimeCache' = readingTimeCache
           /\ (last.op = "getReadingTime" /\ last.postId = id /\ last.out.ok /\ last'.useCache) =>
                /\ last'.out = last.out
                /\ ~last'.fetched
           /\ ~last'.useCache =>
                /\ last'.fetched
                /\ last'.out.ok => last'.out.value = ReadingTimeOf(FetchBlocks(id))
           /\ last'.out.ok =>
                /\ id \in DOMAIN readingTimeCache'
                /\ readingTimeCache'[id] = last'.out.value]_vars

\* C5's case: a call answered from the cache, without a fetch, a value that
\* the content as it is now would no longer give.
C5_Witness ==
    /\ last.op = "getReadingTime"
    /\ last.useCache
    /\ ~last.fetched
    /\ last.out.ok
    /\ last.out.value # ReadingTimeOf(FetchBlocks(last.postId))

RemoteBacked ==
    {"getAllPosts", "getPostBySlug", "getAllFriends", "getAllCategories", "getAllTags",
     "getPageBlocks", "getReadingTime", "getTableOfContents"}

HasPrefix(text, prefix) ==
    Len(text) >= Len(prefix) /\ SubSeq(text, 1, Len(prefix)) = prefix

\* C8: every error a remote-backed exported operation throws because the
\* remote call failed has passed through the error wrapper: its message
\* reads "Failed to <operation>: ...", never the transport's own.
C8_ErrorsAreWrapped ==
    (last.op \in RemoteBacked /\ ~last.out.ok) =>
        /\ HasPrefix(last.out.error.message, "Failed to ")
        /\ last.out.error.message \notin RemoteMessages

RECURSIVE HeadingsInOrder(_)
\* the headings of a block tree in document order, nested ones included
HeadingsInOrder(blocks) ==
    IF blocks = <<>> THEN <<>>
    ELSE LET b == Head(blocks)
         IN (IF IsHeading(b) THEN <<[id |-> b.id, level |-> HeadingLevel(b.type)]>> ELSE <<>>)
            \o (IF "children" \in DOMAIN b THEN HeadingsInOrder(b.children) ELSE <<>>)
            \o HeadingsInOrder(Tail(blocks))

\* C9: getTableOfContents returns one entry per heading of level 1 to 3 found
\* anywhere in the page's content tree, nested headings included, in document
\* order and with the heading's level, and nothing else.
C9_AllHeadings ==
    (last.op = "getTableOfContents" /\ last.fetched /\ last.out.ok) =>
        [i \in DOMAIN last.out.value |->
            [id |-> last.out.value[i].id, level |-> last.out.value[i].level]]
        = HeadingsInOrder(FetchBlocks(last.postId))

\* the number of whitespace-separated words of a text
WordCount(text) ==
    Cardinality({i \in 1..Len(text) :
                    /\ CharAt(text, i) \notin Whitespace
                    /\ (i = 1 \/ CharAt(text, i - 1) \in Whitespace)})

\* C10: on a miss, or with useCache = false, getReadingTime returns
\* ceil(wordCount / 200) for the number of whitespace-separated words of the
\* page's plain text and stores it in the cache: 0 for no words, 1 for 200.
C10_CeilOfWordCount ==
    (last.op = "getReadingTime" /\ last.fetched /\ last.out.ok) =>
        LET words == WordCount(blocksToPlainText(FetchBlocks(last.postId), 0))
        IN /\ last.out.value = CeilDiv(words, WordsPerMinute)
           /\ readingTimeCache[last.postId] = last.out.value

(***************************************************************************)
(* The record maps of public pages (notion-client) and their cache.        *)
(***************************************************************************)
\* what the unofficial client's getPage may do
PageAnswers ==
    {[kind |-> "page"], [kind |-> "throws", message |-> "page not found"],
     [kind |-> "throws", message |-> "ECONNRESET"]}

\* the record map of a page as it is now
RecordMapOf(pageId) == [id |-> pageId, blocks |-> Len(ListChildren(pageId))]

\* String.prototype.includes
Includes(text, part) ==
    \E k \in 1..(Len(text) - Len(part) + 1) : SubSeq(text, k, k + Len(part) - 1) = part

\* notion-helpers.ts:250   the messages are the source's, in short
getPageRecordMap(pageId, answer) ==
    IF pageId \in DOMAIN recordMapCache
    THEN [out |-> Ok(recordMapCache[pageId]), cache |-> recordMapCache]
    ELSE IF answer.kind = "page"
         THEN [out |-> Ok(RecordMapOf(pageId)),
               cache |-> MapSet(recordMapCache, pageId, RecordMapOf(pageId))]
         ELSE [out |-> IF Includes(answer.message, "not found")
                       THEN Throw("Notion page not found or not public: " \o pageId)
                       ELSE Throw("Could not load Notion page: " \o pageId),
               cache |-> recordMapCache]

\* notion-helpers.ts:283
clearRecordMapCache == <<>>

(***************************************************************************)
(* Specification SpecCaches: every cache of the site next to the others.   *)
(***************************************************************************)
InitCaches ==
    /\ posts = [i \in PostIndex |-> MkPage(i, "Published", 1)]
    /\ dataSourceCache = <<>>
    /\ pageIdToSlugCache = <<>>
    /\ blockStore = Doc("p1", "empty") @@ Doc("p2", "short")
    /\ readingTimeCache = <<>>
    /\ tableOfContentsCache = <<>>
    /\ last = [op |-> "init"]
    /\ hne = [pc |-> "idle"]
    /\ ExtraIdle

recordMapFrame ==
    <<posts, dataSourceCache, pageIdToSlugCache, blockStore, readingTimeCache,
      tableOfContentsCache, hne, callers, walk>>

\* the author rewrites page p1
ReviseContent ==
    \E name \in {"empty", "outline"} :
        /\ blockStore' = Doc("p1", name)
                         @@ [id \in {x \in DOMAIN blockStore : SubSeq(x, 1, 2) # "p1"} |->
                                blockStore[id]]
        /\ blockStore' # blockStore
        /\ last' = [op |-> "edit"]
        /\ UNCHANGED <<readingTimeCache, tableOfContentsCache, postsVars>>

GetPageRecordMap ==
    \E pageId \in ContentPages, answer \in PageAnswers :
        LET r == getPageRecordMap(pageId, answer)
        IN /\ recordMapCache' = r.cache
           /\ last' = [op |-> "getPageRecordMap", pageId |-> pageId, out |-> r.out]
           /\ UNCHANGED recordMapFrame

ClearRecordMapCache ==
    /\ recordMapCache' = clearRecordMapCache
    /\ last' = [op |-> "clearRecordMapCache"]
    /\ UNCHANGED recordMapFrame

NextCaches ==
    \/ ReviseContent
    \/ GetReadingTime
    \/ GetTableOfContents
    \/ ClearAllCaches
    \/ BuildPageIdToSlugMap
    \/ ClearPageIdMap
    \/ GetPageRecordMap
    \/ ClearRecordMapCache

SpecCaches == InitCaches /\ [][NextCaches]_vars

TemplateString(v) ==
    CASE v.t = "string" -> v.s
      [] v.t = "undefined" -> "undefined"
      [] v.t = "null" -> "null"
      [] OTHER -> "[object Object]"

\* a mapping that takes whatever the slug map answers
mapPageUrl_noFallback(pageId, rootPageId, slug) ==
    IF Str(pageId) = rootPageId /\ Truthy(slug)
    THEN "/posts/" \o TemplateString(slug)
    ELSE "/posts/" \o TemplateString(getSlugByPageId(pageId))

\* NotionRenderer.tsx:56
mapPageUrl(pageId, rootPageId, slug) ==
    IF Str(pageId) = rootPageId /\ Truthy(slug)
    THEN "/posts/" \o TemplateString(slug)
    ELSE LET linkedSlug == getSlugByPageId(pageId)
         IN IF Truthy(linkedSlug)
            THEN "/posts/" \o TemplateString(linkedSlug)
            ELSE "/posts/" \o pageId

(***************************************************************************)
(* Specification SpecRender: links rendered over a changing slug map.      *)
(***************************************************************************)
\* a row as the query returns it once the author has removed a property
WithoutProperty(page, name) ==
    [page EXCEPT !.properties = [k \in DOMAIN page.properties \ {name} |-> page.properties[k]]]

\* the props the page component may pass: no root page or the first row, no
\* slug, an empty one, or the first row's
RootPageIds == {Undefined, Str(PageIdOf(1))}
RouteSlugs == {Undefined, Str(""), Str(SlugOf(1))}

InitRender ==
    /\ posts = [i \in PostIndex |-> MkPage(i, "Published", 1)]
    /\ dataSourceCache = <<>>
    /\ pageIdToSlugCache = <<>>
    /\ last = [op |-> "init"]
    /\ Idle

\* the author fills in or removes the Slug of a row
EditSlug ==
    \E i \in PostIndex, hasSlug \in BOOLEAN :
        /\ posts' = [posts EXCEPT ![i] = IF hasSlug THEN MkPage(i, "Published", 1)
                                         ELSE WithoutProperty(MkPage(i, "Published", 1), "Slug")]
        /\ posts' # posts
        /\ last' = [op |-> "edit"]
        /\ UNCHANGED <<dataSourceCache, pageIdToSlugCache, derivedVars>>

MapPageUrl ==
    \E pageId \in QueryIds, rootPageId \in RootPageIds, slug \in RouteSlugs :
        /\ last' = [op |-> "mapPageUrl", pageId |-> pageId, rootPageId |-> rootPageId,
                    slug |-> slug, out |-> mapPageUrl(pageId, rootPageId, slug)]
        /\ UNCHANGED <<posts, dataSourceCache, pageIdToSlugCache, derivedVars>>

NextRender ==
    \/ EditSlug
    \/ BuildPageIdToSlugMap
    \/ ClearPageIdMap
    \/ MapPageUrl

SpecRender == InitRender /\ [][NextRender]_vars

\* the slug map has a non-empty slug for pageId
Resolved(pageId) ==
    /\ pageId \in DOMAIN pageIdToSlugCache
    /\ pageIdToSlugCache[pageId] # Str("")

\* C12: the mapping returns "/posts/" and one path segment that is never
\* empty, "undefined" or "null": the given slug for the root page when a slug
\* is given, else the slug the map resolves for the page, else (page not in
\* the map, map never built or cleared, or no slug recorded) the page id.
C12_UsablePath ==
    last.op = "mapPageUrl" =>
        LET out == last.out
            segment == SubSeq(out, 8, Len(out))
            isRoot == /\ last.rootPageId = Str(last.pageId)
                      /\ last.slug \notin {Undefined, Str("")}
        IN /\ SubSeq(out, 1, 7) = "/posts/"
           /\ segment \notin {"", "undefined", "null"}
           /\ isRoot => Str(segment) = last.slug
           /\ (~isRoot /\ Resolved(last.pageId)) => Str(segment) = pageIdToSlugCache[last.pageId]
           /\ (~isRoot /\ ~Resolved(last.pageId)) => segment = last.pageId

\* C12's case: a link to a page that the map holds without a slug, mapped to
\* the page id.
C12_Witness ==
    /\ last.op = "mapPageUrl"
    /\ last.pageId \in DOMAIN pageIdToSlugCache
    /\ ~Resolved(last.pageId)
    /\ last.rootPageId # Str(last.pageId)
    /\ last.out = "/posts/" \o last.pageId

(***************************************************************************)
(* getPageBlocks step by step: one activation per block_id, suspended at   *)
(* each `await getPageBlocks(block.id)` (notion.ts:188-207).               *)
(***************************************************************************)
\* the longest chain of suspended activations explored
MaxDepth == 5

\* a descent into every block that has children
Recurses_everyBlock(block) == block.has_children

\* notion.ts:201
Recurses(block) == block.has_children /\ block.type # "child_page"

\* notion.ts:189-197   a new activation: the listed blocks, the loop of
\* notion.ts:200 before its first block
Activation(id) == [id |-> id, blocks |-> ListChildren(id), i |-> 1]

Top == walk.stack[Len(walk.stack)]

walkFrame ==
    <<posts, dataSourceCache, pageIdToSlugCache, blockStore, readingTimeCache,
      tableOfContentsCache, last, hne, recordMapCache, callers>>

\* notion.ts:188   the call
WalkCall ==
    \E pageId \in ContentPages :
        /\ walk.pc # "running"
        /\ walk' = [pc |-> "running", root |-> pageId, stack |-> <<Activation(pageId)>>,
                    listed |-> {pageId}]
        /\ UNCHANGED walkFrame

\* notion.ts:201   a block that is not descended into
WalkSkip ==
    /\ walk.pc = "running"
    /\ Top.i <= Len(Top.blocks)
    /\ ~Recurses(Top.blocks[Top.i])
    /\ walk' = [walk EXCEPT !.stack[Len(walk.stack)].i = @ + 1]
    /\ UNCHANGED walkFrame

\* notion.ts:202   the recursive call
WalkDescend ==
    /\ walk.pc = "running"
    /\ Top.i <= Len(Top.blocks)
    /\ Recurses(Top.blocks[Top.i])
    /\ Len(walk.stack) < MaxDepth
    /\ LET id == Top.blocks[Top.i].id
       IN walk' = [walk EXCEPT !.stack = Append(@, Activation(id)),
                               !.listed = @ \cup {id}]
    /\ UNCHANGED walkFrame

\* notion.ts:206, 202   an inner activation returns, its caller attaches the
\* blocks as `children` and moves on
WalkReturn ==
    /\ walk.pc = "running"
    /\ Top.i > Len(Top.blocks)
    /\ Len(walk.stack) > 1
    /\ LET n == Len(walk.stack)
           caller == walk.stack[n - 1]
           block == [children |-> Top.blocks] @@ caller.blocks[caller.i]
       IN walk' = [walk EXCEPT
                     !.stack = Append(SubSeq(@, 1, n - 2),
                                      [caller EXCEPT !.blocks[caller.i] = block,
                                                     !.i = @ + 1])]
    /\ UNCHANGED walkFrame

\* notion.ts:206   the outermost activation returns
WalkFinish ==
    /\ walk.pc = "running"
    /\ Top.i > Len(Top.blocks)
    /\ Len(walk.stack) = 1
    /\ walk' = [pc |-> "done", root |-> walk.root, out |-> Top.blocks, listed |-> walk.listed]
    /\ UNCHANGED walkFrame

WalkStep == WalkSkip \/ WalkDescend \/ WalkReturn \/ WalkFinish

(***************************************************************************)
(* Specification SpecWalk: block trees, some of them with a cycle.         *)
(***************************************************************************)
WalkDocNames == {"mixed", "loop", "selfloop", "lateloop", "pageloop"}

\* documents with shared and circular child references
WalkDoc(p, name) ==
    CASE name = "mixed" ->
            (p :> <<PlainBlock(p \o "-1", "child_page", Obj([title |-> Str("Appendix")]), TRUE),
                    TextBlock(p \o "-2", "toggle", "Details", TRUE),
                    TextBlock(p \o "-3", "paragraph", "end", FALSE)>>)
            @@ (p \o "-1" :> <<TextBlock(p \o "-1-1", "toggle", "Elsewhere", TRUE)>>)
            @@ (p \o "-1-1" :> <<TextBlock(p \o "-1-1-1", "paragraph", "unseen", FALSE)>>)
            @@ (p \o "-2" :> <<TextBlock(p \o "-2-1", "toggle", "Inside", TRUE),
                               TextBlock(p \o "-2-2", "paragraph", "text", FALSE)>>)
            @@ (p \o "-2-1" :> <<TextBlock(p \o "-2-1-1", "paragraph", "deep", FALSE)>>)
      [] name = "loop" ->
            (p :> <<TextBlock(p \o "-1", "toggle", "a", TRUE)>>)
            @@ (p \o "-1" :> <<TextBlock(p \o "-2", "toggle", "b", TRUE)>>)
            @@ (p \o "-2" :> <<TextBlock(p \o "-1", "toggle", "a", TRUE)>>)
      [] name = "selfloop" ->
            (p :> <<PlainBlock(p, "synced_block", Obj(<<>>), TRUE)>>)
      [] name = "lateloop" ->
            (p :> <<TextBlock(p \o "-1", "toggle", "fine", TRUE),
                    TextBlock(p \o "-2", "toggle", "round", TRUE)>>)
            @@ (p \o "-1" :> <<TextBlock(p \o "-1-1", "paragraph", "text", FALSE)>>)
            @@ (p \o "-2" :> <<TextBlock(p \o "-2", "toggle", "round", TRUE)>>)
      [] name = "pageloop" ->
            (p :> <<PlainBlock(p, "child_page", Obj([title |-> Str("Home")]), TRUE),
                    TextBlock(p \o "-2", "paragraph", "text", FALSE)>>)

WalkDocsOf(p) ==
    {WalkDoc(p, name) : name \in WalkDocNames}
    \cup {Doc(p, name) : name \in {"empty", "nested", "columns", "subpage"}}

InitWalk ==
    /\ posts = <<>>
    /\ dataSourceCache = <<>>
    /\ pageIdToSlugCache = <<>>
    /\ blockStore = Doc("p1", "empty") @@ Doc("p2", "nested")
    /\ readingTimeCache = <<>>
    /\ tableOfContentsCache = <<>>
    /\ last = [op |-> "init"]
    /\ hne = [pc |-> "idle"]
    /\ ExtraIdle

\* the author rewrites page p1 while no retrieval is under way
EditTree ==
    /\ walk.pc # "running"
    /\ \E doc \in WalkDocsOf("p1") :
        /\ blockStore' = doc @@ [id \in {x \in DOMAIN blockStore : SubSeq(x, 1, 2) # "p1"} |->
                                    blockStore[id]]
        /\ blockStore' # blockStore
    /\ walk' = [pc |-> "idle"]
    /\ last' = [op |-> "edit"]
    /\ UNCHANGED <<readingTimeCache, tableOfContentsCache, posts, dataSourceCache,
                   pageIdToSlugCache, hne, recordMapCache, callers>>

NextWalk ==
    \/ EditTree
    \/ WalkCall
    \/ WalkSkip
    \/ WalkDescend
    \/ WalkReturn
    \/ WalkFinish

\* every listing answers, so an activation that can take a step takes it
SpecWalk == InitWalk /\ [][NextWalk]_vars /\ WF_vars(WalkStep)

\* the block_ids that a retrieval of `id` asks the children of next
Followed(id) ==
    LET blocks == ListChildren(id)
    IN {blocks[k].id : k \in {j \in DOMAIN blocks :
                                 blocks[j].has_children /\ blocks[j].type # "child_page"}}

RECURSIVE ReachFrom(_)
\* the ids in S and every id followed from them
ReachFrom(S) ==
    LET T == S \cup UNION {Followed(x) : x \in S}
    IN IF T = S THEN S ELSE ReachFrom(T)

\* the child references followed from `root` come back to a block
CyclicFrom(root) == \E x \in ReachFrom({root}) : x \in ReachFrom(Followed(x))

\* C13: on a structure without a cycle getPageBlocks(pageId) ends, and what it
\* returns is the whole tree: the children of every block with has_children
\* other than a child_page were listed and attached, and no other listing was
\* made; on a structure whose followed child references form a cycle it never
\* returns.
C13_TerminatesIffAcyclic ==
    /\ [](walk.pc = "done" =>
            /\ ~CyclicFrom(walk.root)
            /\ walk.listed = ReachFrom({walk.root})
            /\ walk.out = FetchBlocks(walk.root))
    /\ [](walk.pc = "running" =>
            /\ walk.listed \subseteq ReachFrom({walk.root})
            /\ Len(walk.stack) = MaxDepth => CyclicFrom(walk.root))
    /\ ((walk.pc = "running" /\ ~CyclicFrom(walk.root)) ~> walk.pc = "done")

\* C13's case: a retrieval that has returned a tree three levels deep, with a
\* child_page whose own children were left alone.
C13_Witness ==
    /\ walk.pc = "done"
    /\ blockStore["p1"] = WalkDoc("p1", "mixed")["p1"]
    /\ walk.root = "p1"
    /\ walk.listed = {"p1", "p1-2", "p1-2-1"}
    /\ walk.out[2].children[1].children[1].id = "p1-2-1-1"

(***************************************************************************)
(* SEO metadata of a post (notion-helpers.ts:200-214).                     *)
(***************************************************************************)
\* notion-helpers.ts:200   the outcome, and the data-source cache after the call
getPostSEOMetadata(slug, siteUrl, answer, request) ==
    LET r == getPostBySlug(slug, TRUE, answer, request)
        post == r.out.value
    IN IF ~r.out.ok THEN r
       ELSE IF post = Null THEN [out |-> Ok(Null), cache |-> r.cache]
       ELSE [out |-> Ok([title |-> Or(post.seoTitle, post.title),
                         description |-> Or(post.description, Str("")),
                         keywords |-> Or(post.seoKeywords, post.tags),
                         ogImage |-> Or(post.coverImage, Str(siteUrl \o "/og-default.png")),
                         canonical |-> Str(siteUrl \o "/posts/" \o slug)]),
             cache |-> r.cache]

(***************************************************************************)
(* Specification SpecSeo: metadata over rows with and without SEO fields.  *)
(***************************************************************************)
Names(ns) == Arr([k \in DOMAIN ns |-> Obj([name |-> Str(ns[k])])])

SeoProfiles == {"bare", "tagged", "emptied", "full"}

\* the Tags and SEO properties of a row: none of them; tags only; tags next
\* to SEO fields left empty; all filled in
SeoProperties(profile) ==
    CASE profile = "bare" -> <<>>
      [] profile = "tagged" -> [Tags |-> Obj([multi_select |-> Names(<<"t1", "t2">>)])]
      [] profile = "emptied" ->
            [Tags |-> Obj([multi_select |-> Names(<<"t1">>)])]
            @@ ("SEO Keywords" :> Obj([multi_select |-> Names(<<>>)]))
            @@ ("SEO Title" :> Obj([rich_text |-> Arr(<<>>)]))
            @@ ("Cover Image" :> Obj([url |-> Null]))
      [] profile = "full" ->
            [Tags |-> Obj([multi_select |-> Names(<<"t1">>)])]
            @@ ("SEO Keywords" :> Obj([multi_select |-> Names(<<"k1", "k2">>)]))
            @@ ("SEO Title" :> Obj([rich_text |-> RichText("seo title")]))
            @@ ("Cover Image" :> Obj([url |-> Str("https://example.org/c.png")]))

SeoPage(i, status, profile) ==
    [MkPage(i, status, 1) EXCEPT !.properties = SeoProperties(profile) @@ @]

SeoRowKinds == {<<"Published", f>> : f \in SeoProfiles} \cup {<<"Draft", "full">>}

SiteUrls == {"https://a.example"}

InitSeo ==
    /\ posts = [i \in PostIndex |-> SeoPage(i, "Draft", "full")]
    /\ dataSourceCache = <<>>
    /\ pageIdToSlugCache = <<>>
    /\ last = [op |-> "init"]
    /\ Idle

\* the author edits the status, tags and SEO fields of a row
EditSeo ==
    \E i \in PostIndex, k \in SeoRowKinds :
        /\ posts' = [posts EXCEPT ![i] = SeoPage(i, k[1], k[2])]
        /\ posts' # posts
        /\ last' = [op |-> "edit"]
        /\ UNCHANGED <<dataSourceCache, pageIdToSlugCache, derivedVars>>

GetPostSEOMetadata ==
    \E slug \in QuerySlugs, siteUrl \in SiteUrls,
       answer \in DbAnswers(POSTS_DATABASE_ID), request \in RequestAnswers :
        LET r == getPostSEOMetadata(slug, siteUrl, answer, request)
        IN /\ dataSourceCache' = r.cache
           /\ last' = [op |-> "getPostSEOMetadata", slug |-> slug, siteUrl |-> siteUrl,
                       out |-> r.out]
           /\ UNCHANGED <<posts, pageIdToSlugCache, derivedVars>>

NextSeo ==
    \/ EditSeo
    \/ GetPostSEOMetadata

SpecSeo == InitSeo /\ [][NextSeo]_vars

\* what a row holds, read off its properties
NamesOf(page, name) ==
    LET ms == Field(Prop(page, name), "multi_select")
    IN IF ms.t = "array" THEN [k \in DOMAIN ms.a |-> ms.a[k].o.name] ELSE <<>>
TextOf(page, name, kind) ==
    LET rt == Field(Prop(page, name), kind)
    IN IF rt.t = "array" THEN JoinPlainText(rt.a) ELSE ""
UrlOf(page, name) ==
    LET u == Field(Prop(page, name), "url")
    IN IF u.t = "string" THEN u.s ELSE ""

\* the metadata other than the keywords: null when no Published row has the slug, else
\* the title is the SEO title or, without one, the post title, and ogImage is
\* the cover image or, without one, <siteUrl>/og-default.png.
SeoTitleAndImage ==
    (last.op = "getPostSEOMetadata" /\ last.out.ok) =>
        LET rows == MatchingRows(last.slug)
            meta == last.out.value
        IN /\ (\A i \in rows : RemoteStatus(posts[i]) # Str("Published")) => meta = Null
           /\ meta # Null =>
                LET page == posts[FirstMatch(last.slug)]
                    seoTitle == TextOf(page, "SEO Title", "rich_text")
                    cover == UrlOf(page, "Cover Image")
                IN /\ meta.title = Str(IF seoTitle # "" THEN seoTitle
                                       ELSE TextOf(page, "Title", "title"))
                   /\ meta.ogImage = Str(IF cover # "" THEN cover
                                         ELSE last.siteUrl \o "/og-default.png")

\* C14: getPostSEOMetadata returns null when no Published row has the slug;
\* otherwise keywords is the row's SEO keyword list when that list is not
\* empty and the row's tags when the row has no SEO keywords (no property, or
\* an empty list), the title falls back from the SEO title to the post title
\* and ogImage from the cover image to <siteUrl>/og-default.png.
C14_SeoFallbacks ==
    /\ SeoTitleAndImage
    /\ (last.op = "getPostSEOMetadata" /\ last.out.ok /\ last.out.value # Null) =>
            LET page == posts[FirstMatch(last.slug)]
                seoKeywords == NamesOf(page, "SEO Keywords")
            IN last.out.value.keywords =
                    Arr(IF seoKeywords # <<>> THEN seoKeywords ELSE NamesOf(page, "Tags"))

(***************************************************************************)
(* getDataSourceId step by step: accessor calls that overlap while the     *)
(* retrieve of another is in flight (notion.ts:64-86).                     *)
(***************************************************************************)
\* the accessor calls that may be in flight together
NumCallers == 2
\* the retrieves explored per database
MaxRetrieves == 3

\* notion.ts:54
FRIENDS_DATABASE_ID == "friends-db"

Callers == 1..NumCallers
DatabaseIds == {POSTS_DATABASE_ID, FRIENDS_DATABASE_ID}

\* the database an accessor asks the data source of (notion.ts:94, 140, 314)
DatabaseOf(op) == IF op = "getAllFriends" THEN FRIENDS_DATABASE_ID ELSE POSTS_DATABASE_ID
Accessors == {"getAllPosts", "getPostBySlug", "getAllFriends"}

\* notion.ts:73-85   the rest of getDataSourceId once the retrieve has
\* settled: the outcome, and the cache after it
afterRetrieve(databaseId, answer) ==
    IF answer.kind = "throws"
    THEN [out |-> Throw(answer.message), cache |-> dataSourceCache]
    ELSE IF answer.kind = "partial"
    THEN [out |-> Throw("No read permissions on database: " \o databaseId),
          cache |-> dataSourceCache]
    ELSE IF Len(answer.data_sources) > 0
    THEN [out |-> Ok(answer.data_sources[1]),
          cache |-> MapSet(dataSourceCache, databaseId, answer.data_sources[1])]
    ELSE [out |-> Throw("No data sources found in database " \o databaseId),
          cache |-> dataSourceCache]

callersFrame ==
    <<posts, pageIdToSlugCache, blockStore, readingTimeCache, tableOfContentsCache, last,
      hne, recordMapCache, walk>>

\* notion.ts:66-68   an accessor calls getDataSourceId and finds the id cached
CacheHit ==
    \E c \in Callers, op \in Accessors :
        /\ callers.proc[c].pc = "idle"
        /\ DatabaseOf(op) \in DOMAIN dataSourceCache
        /\ callers' = [callers EXCEPT
                         !.proc[c] = [pc |-> "returned", op |-> op,
                                      out |-> Ok(dataSourceCache[DatabaseOf(op)])]]
        /\ UNCHANGED <<dataSourceCache, callersFrame>>

\* notion.ts:66-71   an accessor calls getDataSourceId, misses the cache and
\* sends the retrieve
StartRetrieve ==
    \E c \in Callers, op \in Accessors :
        LET db == DatabaseOf(op)
        IN /\ callers.proc[c].pc = "idle"
           /\ db \notin DOMAIN dataSourceCache
           /\ callers.started[db] < MaxRetrieves
           /\ callers' = [callers EXCEPT !.proc[c] = [pc |-> "awaiting", op |-> op],
                                         !.started[db] = @ + 1]
           /\ UNCHANGED <<dataSourceCache, callersFrame>>

\* notion.ts:69-85   the retrieve settles and getDataSourceId runs to its end
RetrieveSettles ==
    \E c \in Callers, answer \in RetrieveAnswers :
        LET db == DatabaseOf(callers.proc[c].op)
            r == afterRetrieve(db, answer)
        IN /\ callers.proc[c].pc = "awaiting"
           /\ dataSourceCache' = r.cache
           /\ callers' = [callers EXCEPT
                            !.proc[c] = [pc |-> "returned", op |-> callers.proc[c].op,
                                         out |-> r.out],
                            !.failed[db] = IF r.out.ok THEN @ ELSE @ + 1]
           /\ UNCHANGED callersFrame

\* the accessor is done with the id, or with the error
AccessorEnds ==
    \E c \in Callers :
        /\ callers.proc[c].pc = "returned"
        /\ callers' = [callers EXCEPT !.proc[c] = [pc |-> "idle"]]
        /\ UNCHANGED <<dataSourceCache, callersFrame>>

(***************************************************************************)
(* Specification SpecOverlap: the data-source cache under overlapping      *)
(* accessor calls.                                                         *)
(***************************************************************************)
InitOverlap ==
    /\ posts = <<>>
    /\ dataSourceCache = <<>>
    /\ pageIdToSlugCache = <<>>
    /\ blockStore = <<>>
    /\ readingTimeCache = <<>>
    /\ tableOfContentsCache = <<>>
    /\ last = [op |-> "init"]
    /\ hne = [pc |-> "idle"]
    /\ recordMapCache = <<>>
    /\ walk = [pc |-> "idle"]
    /\ callers = [proc |-> [c \in Callers |-> [pc |-> "idle"]],
                  started |-> [db \in DatabaseIds |-> 0],
                  failed |-> [db \in DatabaseIds |-> 0]]

NextOverlap ==
    \/ CacheHit
    \/ StartRetrieve
    \/ RetrieveSettles
    \/ AccessorEnds

SpecOverlap == InitOverlap /\ [][NextOverlap]_vars

\* the calls whose retrieve of `db` is in flight
Awaiting(db) ==
    {c \in Callers : callers.proc[c].pc = "awaiting" /\ DatabaseOf(callers.proc[c].op) = db}

\* a retrieve that fails leaves the cache as it was, and the next call that
\* misses the cache sends the retrieve again
FailedRetrieveStoresNothing ==
    [][\A db \in DatabaseIds :
            callers'.failed[db] > callers.failed[db] => dataSourceCache' = dataSourceCache]_vars

\* C15: for each database id the retrieve is sent at most once, failed
\* retrieves aside: never while another retrieve of the same id is in flight,
\* never after one has succeeded, whatever the interleaving of the accessor
\* calls; a retrieve that fails stores nothing and the next call sends it again.
C15_RetrieveOnce ==
    \A db \in DatabaseIds :
        /\ Cardinality(Awaiting(db)) <= 1
        /\ callers.started[db] <= callers.failed[db] + 1
        /\ db \in DOMAIN dataSourceCache => Awaiting(db) = {}

====
